---- MODULE Spec2Model ----
(***************************************************************************)
(* The credential store of spoticord_database: the user and account        *)
(* repositories, the retry wrapper that masks the "unnamed prepared         *)
(* statement does not exist" failure, and get_access_token's refresh        *)
(* protocol.  Callers are asynchronous tasks; every database statement runs *)
(* in a blocking task that takes the pool's single connection.             *)
(***************************************************************************)
EXTENDS Integers, Sequences, FiniteSets, TLC

\* ------------------------------------------------------------ bounds ----
\* The clock counts minutes and stops at MaxTime.
MaxTime == 1
\* Calls the callers may start in total.
MaxCalls == 2

Procs == {"p1", "p2"}
UserIds == {"u1", "u2"}
\* What the identity provider may hand out.
AccessTokens == {"a1", "a2"}
RefreshTokens == {"r1"}
\* The random tokens create_request may draw.
LinkTokens == {"t1", "t2"}
\* Minutes a fresh token lives (expires_at = now + lifetime).
TokenLifetimes == {2}

VARIABLES
    user,       \* table user: id -> row
    account,    \* table account: user_id -> row
    link_request, \* table link_request: the set of its rows
    conn,       \* the callers whose closure holds a pooled connection
    clock,      \* Utc::now(), in minutes
    started,    \* calls started so far
    call        \* per caller: the call it is in and that call's locals

vars == <<user, account, link_request, conn, clock, started, call>>

\* ------------------------------------------------------------ values ----
Null == [null |-> TRUE]
NoRow == [exists |-> FALSE]
\* Pool::builder().max_size(1)
PoolMaxSize == 1
\* No connection is checked out.
Free == {}

Some(v) == [some |-> TRUE, v |-> v]
NoneStr == [some |-> FALSE, v |-> ""]
NoneTime == [some |-> FALSE, v |-> 0]
\* ()
Unit == [unit |-> TRUE]

\* A user row as create_user inserts it: only id is given a value.
UserRow(u) == [exists |-> TRUE, id |-> u, device_name |-> NoneStr]
AccountRow(u, a, r, e) ==
    [exists |-> TRUE, user_id |-> u, access_token |-> a, refresh_token |-> r, expires |-> e]

LinkRow(u, t, e) == [user_id |-> u, token |-> t, expires |-> e]

\* DatabaseError
NotFound == [variant |-> "NotFound", kind |-> "", sig |-> FALSE]
RefreshTokenFailure == [variant |-> "RefreshTokenFailure", kind |-> "", sig |-> FALSE]
PoolError == [variant |-> "Pool", kind |-> "", sig |-> FALSE]
\* DatabaseError::Diesel(DatabaseError(kind, info)); sig: info.message() holds
\* "unnamed prepared statement does not exist"
Diesel(kind, sig) == [variant |-> "Diesel", kind |-> kind, sig |-> sig]
DieselNotFound == [variant |-> "Diesel", kind |-> "NotFound", sig |-> FALSE]

Ok(v) == [ok |-> TRUE, val |-> v, err |-> Null]
Err(e) == [ok |-> FALSE, val |-> Null, err |-> e]
Affected(n) == [affected |-> n]
TokenString(s) == [token |-> s]

\* ----------------------------------------------------- error mapping ----
\* impl From<diesel::result::Error> for DatabaseError (the `?` of a closure)
FromDiesel(e) == IF e = DieselNotFound THEN NotFound ELSE e

\* The match guard of the retry wrapper: DatabaseError::Diesel(DatabaseError(
\* Unknown, info)) whose message contains the prepared-statement signature.
IsPreparedStatementError(r) ==
    /\ ~r.ok
    /\ r.err.variant = "Diesel"
    /\ r.err.kind = "Unknown"
    /\ r.err.sig

\* ------------------------------------------------------------- time ----
\* Account::expired_offset(offset): the token expires within `offset`.
expired_offset(row, now, offset) == row.expires <= now + offset

\* Duration::minutes(1), the safety margin of get_access_token
RefreshMargin == 1

\* -------------------------------------------------------- statements ----
\* What the backend may do to a statement: run it, or fail it before it has
\* any effect with the prepared-statement error or with another error.
Faults == {"none", "prepared", "other"}
FaultError(fault) ==
    IF fault = "prepared" THEN Diesel("Unknown", TRUE) ELSE Diesel("Unknown", FALSE)

Outcome(r, u, a) ==
    [result |-> r, user |-> u, account |-> a, link_request |-> link_request]
Failed(fault) == Outcome(Err(FromDiesel(FaultError(fault))), user, account)

\* user.filter(id.eq(uid)).select(..).first(conn)?
select_user(uid) ==
    IF user[uid].exists
    THEN Outcome(Ok(user[uid]), user, account)
    ELSE Outcome(Err(FromDiesel(DieselNotFound)), user, account)

\* insert_into(user).values(id.eq(uid)).returning(..).get_result(conn)?
insert_user(uid) ==
    IF user[uid].exists
    THEN Outcome(Err(FromDiesel(Diesel("UniqueViolation", FALSE))), user, account)
    ELSE Outcome(Ok(UserRow(uid)), [user EXCEPT ![uid] = UserRow(uid)], account)

\* Variant: the update asks for the updated row, which fails when none matches
update_user_GetResult(uid, dname) ==
    IF user[uid].exists
    THEN Outcome(Ok(Unit),
                 [user EXCEPT ![uid].device_name = Some(dname)], account)
    ELSE Outcome(Err(FromDiesel(DieselNotFound)), user, account)

\* update(user).filter(id.eq(uid)).set(device_name.eq(dname)).execute(conn)?;
\* Ok(()): the number of rows is dropped.
update_user(uid, dname) ==
    Outcome(Ok(Unit),
            IF user[uid].exists
            THEN [user EXCEPT ![uid].device_name = Some(dname)]
            ELSE user,
            account)

\* account.filter(user_id.eq(uid)).select(..).first(conn)?
select_account(uid) ==
    IF account[uid].exists
    THEN Outcome(Ok(account[uid]), user, account)
    ELSE Outcome(Err(FromDiesel(DieselNotFound)), user, account)

\* Variant: the delete reports a row but removes none
delete_account_stmt_Keep(uid) ==
    IF account[uid].exists
    THEN Outcome(Ok(Affected(1)), user, account)
    ELSE Outcome(Ok(Affected(0)), user, account)

\* delete(account).filter(user_id.eq(uid)).execute(conn)?
delete_account_stmt(uid) ==
    IF account[uid].exists
    THEN Outcome(Ok(Affected(1)), user, [account EXCEPT ![uid] = NoRow])
    ELSE Outcome(Ok(Affected(0)), user, account)

\* refresh_token_val.as_deref().unwrap_or("")
RefreshTokenColumn(tok) == IF tok.refresh_token.some THEN tok.refresh_token.v ELSE ""

\* Variant: the update sets access_token and refresh_token, not expires
update_account_KeepExpires(uid, tok) ==
    IF account[uid].exists
    THEN LET row == AccountRow(uid, tok.access_token,
                               RefreshTokenColumn(tok),
                               account[uid].expires)
         IN Outcome(Ok(row), user, [account EXCEPT ![uid] = row])
    ELSE Outcome(Err(FromDiesel(DieselNotFound)), user, account)

\* Variant: the update is an upsert, inserting the row when none matches
update_account_Upsert(uid, tok) ==
    LET row == AccountRow(uid, tok.access_token, RefreshTokenColumn(tok),
                          tok.expires_at.v)
    IN Outcome(Ok(row), user, [account EXCEPT ![uid] = row])

\* Variant: the update carries a version check and matches only a row that
\* expires before the new token does
update_account_IfOlder(uid, tok) ==
    IF account[uid].exists /\ account[uid].expires < tok.expires_at.v
    THEN LET row == AccountRow(uid, tok.access_token,
                               RefreshTokenColumn(tok),
                               tok.expires_at.v)
         IN Outcome(Ok(row), user, [account EXCEPT ![uid] = row])
    ELSE Outcome(Err(FromDiesel(DieselNotFound)), user, account)

\* update(account).filter(user_id.eq(uid)).set((access_token, refresh_token,
\* expires)).returning(..).get_result(conn)?
update_account(uid, tok) ==
    IF account[uid].exists
    THEN LET row == AccountRow(uid, tok.access_token,
                               RefreshTokenColumn(tok),
                               tok.expires_at.v)
         IN Outcome(Ok(row), user, [account EXCEPT ![uid] = row])
    ELSE Outcome(Err(FromDiesel(DieselNotFound)), user, account)

\* Duration::hours(1), in minutes
OneHour == 60

\* The rows of link_request for one user_id.
RowsOf(uid) == {r \in link_request : r.user_id = uid}

\* Variant: a plain insert, as if user_id carried no conflict clause
upsert_request_InsertOnly(uid, tok, exp) ==
    [Outcome(Ok(LinkRow(uid, tok, exp)), user, account)
        EXCEPT !.link_request = link_request \cup {LinkRow(uid, tok, exp)}]

\* insert_into(link_request).values((user_id, token, expires))
\*   .on_conflict(user_id).do_update().set((token, expires))
\*   .returning(..).get_result(conn)?
upsert_request(uid, tok, exp) ==
    LET kept == link_request \ RowsOf(uid)
        rows == IF RowsOf(uid) = {}
                THEN {LinkRow(uid, tok, exp)}
                ELSE {[r EXCEPT !.token = tok, !.expires = exp] : r \in RowsOf(uid)}
    IN [Outcome(Ok(CHOOSE r \in rows : TRUE), user, account)
           EXCEPT !.link_request = kept \cup rows]

\* The closure a call has dispatched, run against the tables.
Statement(c, fault) ==
    IF fault # "none" THEN Failed(fault)
    ELSE CASE c.stmt = "select_user" -> select_user(c.uid)
           [] c.stmt = "insert_user" -> insert_user(c.uid)
           [] c.stmt = "select_account" -> select_account(c.uid)
           [] c.stmt = "delete_account" -> delete_account_stmt(c.uid)
           [] c.stmt = "update_account" -> update_account(c.uid, c.tok)
           [] c.stmt = "update_user" -> update_user(c.uid, c.dname)
           [] c.stmt = "upsert_request" ->
                upsert_request(c.uid, c.token, c.req_expires)

\* ------------------------------------------------------------- calls ----
NoToken == [access_token |-> "", refresh_token |-> NoneStr, expires_at |-> NoneTime]

\* A caller that is in no call.
Idle ==
    [op |-> "none", uid |-> "", dname |-> "", pc |-> "idle",
     stmt |-> "none", retry |-> FALSE, attempts |-> <<>>, ret |-> Null,
     ran |-> {}, got |-> Null, loaded |-> NoRow, acct |-> NoRow, now |-> 0,
     exchanges |-> 0, tok |-> NoToken, exchanged |-> "no",
     minted |-> 0, token |-> "", req_expires |-> 0, res |-> Null]

\* Hand closure `stmt` to the blocking pool: through the retry wrapper
\* (retry) or by task::spawn_blocking alone.
Dispatch(c, stmt, retry) ==
    [c EXCEPT !.pc = "spawn", !.stmt = stmt, !.retry = retry,
              !.attempts = <<>>, !.ret = Null, !.ran = @ \cup {stmt}]

Return(c, r) == [c EXCEPT !.pc = "done", !.res = r]

\* ------------------------------------------------------- operations ----
\* get_user, create_user, delete_account: the wrapper's result is the call's.
get_user(c, r) == Return(c, r)
create_user(c, r) == Return(c, r)
delete_account(c, r) == Return(c, r)
update_device_name(c, r) == Return(c, r)
\* create_request: the closure's result is the call's.
create_request(c, r) == Return(c, r)

\* Variant: every failure of get_user falls through to create_user
get_or_create_user_AnyError(c, r) ==
    IF c.stmt = "select_user"
    THEN IF ~r.ok
         THEN Dispatch([c EXCEPT !.got = r], "insert_user", TRUE)
         ELSE Return([c EXCEPT !.got = r], r)
    ELSE create_user(c, r)

\* get_or_create_user: match self.get_user(..).await
get_or_create_user(c, r) ==
    IF c.stmt = "select_user"
    THEN IF r = Err(NotFound)
         THEN Dispatch([c EXCEPT !.got = r], "insert_user", TRUE)
         ELSE Return([c EXCEPT !.got = r], r)
    ELSE create_user(c, r)

\* Variant: the load is followed by a refresh whatever the expiry
get_access_token_loaded_AlwaysRefresh(c, r, now) ==
    IF ~r.ok THEN Return(c, r)
    ELSE [c EXCEPT !.loaded = r.val, !.acct = r.val, !.now = now, !.pc = "exchange"]

\* Variant: a failed load is followed by the cleanup delete
get_access_token_loaded_CleanupOnError(c, r, now) ==
    IF ~r.ok THEN Dispatch(c, "delete_account", TRUE)
    ELSE LET d == [c EXCEPT !.loaded = r.val, !.acct = r.val, !.now = now]
         IN IF expired_offset(r.val, now, RefreshMargin)
            THEN [d EXCEPT !.pc = "exchange"]
            ELSE Return(d, Ok(TokenString(r.val.access_token)))

\* get_access_token after its load: `??`, then the expiry check.
get_access_token_loaded(c, r, now) ==
    IF ~r.ok THEN Return(c, r)
    ELSE LET d == [c EXCEPT !.loaded = r.val, !.acct = r.val, !.now = now]
         IN IF expired_offset(r.val, now, RefreshMargin)
            THEN [d EXCEPT !.pc = "exchange"]
            ELSE Return(d, Ok(TokenString(r.val.access_token)))

\* Variant: the cleanup's error is propagated with `?`
get_access_token_cleaned_Propagate(c, r) ==
    IF r.ok THEN Return(c, Err(RefreshTokenFailure)) ELSE Return(c, r)

\* get_access_token after the cleanup delete: `.ok()` drops its result.
get_access_token_cleaned(c, r) == Return(c, Err(RefreshTokenFailure))

\* get_access_token after its update: `??`, then Ok(result.access_token).
get_access_token_updated(c, r) ==
    IF ~r.ok THEN Return(c, r)
    ELSE Return([c EXCEPT !.acct = r.val], Ok(TokenString(r.val.access_token)))

\* Where a call goes on when the closure it awaited has returned r.
Resume(c, r, now) ==
    CASE c.op = "get_user" -> get_user(c, r)
      [] c.op = "create_user" -> create_user(c, r)
      [] c.op = "delete_account" -> delete_account(c, r)
      [] c.op = "create_request" -> create_request(c, r)
      [] c.op = "update_device_name" -> update_device_name(c, r)
      [] c.op = "get_or_create_user" -> get_or_create_user(c, r)
      [] c.op = "get_access_token" /\ c.stmt = "select_account" ->
            get_access_token_loaded(c, r, now)
      [] c.op = "get_access_token" /\ c.stmt = "delete_account" ->
            get_access_token_cleaned(c, r)
      [] c.op = "get_access_token" /\ c.stmt = "update_account" ->
            get_access_token_updated(c, r)

\* ---------------------------------------------------- retry wrapper ----
\* Variant: the wrapper never runs the closure again
ShouldRetry_Never(c, r) == FALSE
\* Variant: the wrapper runs the closure again after any failure, uncapped
ShouldRetry_AnyError(c, r) == ~r.ok

\* retry_on_prepared_statement_error: the match on the first result.
ShouldRetry(c, r) == Len(c.attempts) = 0 /\ IsPreparedStatementError(r)

\* The closure of call c has just run and given r.  (The closures hold no
\* panicking code, so spawn_blocking's JoinError arm is never taken.)
Executed(c, r, now) ==
    LET d == [c EXCEPT !.attempts = Append(@, r)]
    IN IF c.retry /\ ShouldRetry(c, r)
       THEN [d EXCEPT !.pc = "spawn"]
       ELSE Resume([d EXCEPT !.ret = r], r, now)

\* ------------------------------------------------- identity provider ----
\* spotify.refetch_token().await: Err(_), Ok(None) or Ok(Some(token)); a
\* token carries access_token, refresh_token? and expires_at?.
refetch_token(now) ==
    {[kind |-> k, token |-> NoToken] : k \in {"err", "none"}}
    \cup {[kind |-> "token",
           token |-> [access_token |-> a, refresh_token |-> r, expires_at |-> e]] :
            a \in AccessTokens,
            r \in {NoneStr} \cup {Some(x) : x \in RefreshTokens},
            e \in {NoneTime} \cup {Some(now + d) : d \in TokenLifetimes}}

\* ------------------------------------------------------------- Init ----
\* expires of the rows the linking flow has stored
InitExpires == {1, 2}
UserOps == {"get_user", "create_user", "get_or_create_user"}
AccountOps == {"delete_account", "get_access_token"}
RequestOps == {"create_request"}
DeviceOps == {"create_user", "update_device_name"}
DeviceNames == {"d1"}
\* The device name a call passes.
NamesOf(op) == IF op = "update_device_name" THEN DeviceNames ELSE {""}

FirstStatement(op) ==
    CASE op = "get_user" -> "select_user"
      [] op = "create_user" -> "insert_user"
      [] op = "get_or_create_user" -> "select_user"
      [] op = "delete_account" -> "delete_account"
      [] op = "get_access_token" -> "select_account"
      [] op = "create_request" -> "upsert_request"
      [] op = "update_device_name" -> "update_user"

\* Variant: create_request goes through the retry wrapper too
FirstRetry_CreateRequestToo(op) == op # "get_access_token"

\* get_access_token loads (and updates) and create_request upserts with
\* task::spawn_blocking alone; every other operation goes through the retry
\* wrapper.
FirstRetry(op) == op \notin {"get_access_token", "create_request"}

Init ==
    /\ user \in [UserIds -> {NoRow} \cup {UserRow(u) : u \in UserIds}]
    /\ \A u \in UserIds : user[u].exists => user[u].id = u
    /\ account \in [UserIds -> {NoRow} \cup
                      {AccountRow(u, "a0", "r0", e) : u \in UserIds, e \in InitExpires}]
    /\ \A u \in UserIds : account[u].exists => account[u].user_id = u /\ user[u].exists
    /\ link_request = {}
    /\ conn = Free
    /\ clock = 0
    /\ started = 0
    /\ call = [p \in Procs |-> Idle]

\* ---------------------------------------------------------- actions ----
\* A caller invokes an operation of Database.
StartCall(p, ops, uids) ==
    /\ call[p].pc = "idle"
    /\ started < MaxCalls
    /\ \E op \in ops, uid \in uids :
         \E dname \in NamesOf(op) :
           call' = [call EXCEPT ![p] =
                      Dispatch([Idle EXCEPT !.op = op, !.uid = uid,
                                            !.dname = dname],
                               FirstStatement(op), FirstRetry(op))]
    /\ started' = started + 1
    /\ UNCHANGED <<user, account, link_request, conn, clock>>

\* Variant: the pool hands out connections without a limit
PoolGet_NoLimit(p) ==
    /\ call[p].pc = "spawn"
    /\ conn' = conn \cup {p}
    /\ call' = [call EXCEPT ![p].pc = "exec"]
    /\ UNCHANGED <<user, account, link_request, clock, started>>

\* pool.get() hands the closure the connection.
PoolGet(p) ==
    /\ call[p].pc = "spawn"
    /\ Cardinality(conn) < PoolMaxSize
    /\ conn' = conn \cup {p}
    /\ call' = [call EXCEPT ![p].pc = "exec"]
    /\ UNCHANGED <<user, account, link_request, clock, started>>

\* pool.get() fails (timeout, broken connection): the closure returns the
\* pool's error.
PoolGetFail(p) ==
    /\ call[p].pc = "spawn"
    /\ call' = [call EXCEPT ![p] = Executed(call[p], Err(PoolError), clock)]
    /\ UNCHANGED <<user, account, link_request, conn, clock, started>>

\* create_request's closure draws _token and _expires once it has the
\* connection; the other closures draw nothing.
MintChoices(c) == IF c.stmt = "upsert_request" THEN LinkTokens ELSE {""}
Mint(c, t, now) ==
    IF c.stmt = "upsert_request"
    THEN [c EXCEPT !.minted = @ + 1, !.token = t, !.req_expires = now + OneHour]
    ELSE c

\* Variant: the connection is taken outside the closure and kept by the call
Execute_HoldConnection(p) ==
    /\ call[p].pc = "exec"
    /\ p \in conn
    /\ \E fault \in Faults, t \in MintChoices(call[p]) :
         LET c == Mint(call[p], t, clock)
             out == Statement(c, fault)
             d == Executed(c, out.result, clock)
         IN /\ user' = out.user
            /\ account' = out.account
            /\ link_request' = out.link_request
            /\ call' = [call EXCEPT ![p] = d]
            /\ conn' = IF d.pc = "done" THEN conn \ {p} ELSE conn
    /\ UNCHANGED <<clock, started>>

\* The closure runs its statement and drops the connection.
Execute(p) ==
    /\ call[p].pc = "exec"
    /\ p \in conn
    /\ \E fault \in Faults, t \in MintChoices(call[p]) :
         LET c == Mint(call[p], t, clock)
             out == Statement(c, fault)
         IN /\ user' = out.user
            /\ account' = out.account
            /\ link_request' = out.link_request
            /\ call' = [call EXCEPT ![p] = Executed(c, out.result, clock)]
    /\ conn' = conn \ {p}
    /\ UNCHANGED <<clock, started>>

\* get_access_token: the exchange with the identity provider and its match.
Exchange(p) ==
    /\ call[p].pc = "exchange"
    /\ \E x \in refetch_token(clock) :
         LET c == [call[p] EXCEPT !.exchanges = @ + 1]
         IN call' = [call EXCEPT ![p] =
              IF x.kind # "token"
              THEN Dispatch([c EXCEPT !.exchanged = "failed"], "delete_account", TRUE)
              ELSE IF ~x.token.expires_at.some
                   THEN [c EXCEPT !.exchanged = "ok", !.tok = x.token, !.pc = "panicked"]
                   ELSE Dispatch([c EXCEPT !.exchanged = "ok", !.tok = x.token],
                                 "update_account", FALSE)]
    /\ UNCHANGED <<user, account, link_request, conn, clock, started>>

\* The caller has its result (or its task has panicked) and is free again.
Finish(p) ==
    /\ call[p].pc \in {"done", "panicked"}
    /\ call' = [call EXCEPT ![p] = Idle]
    /\ UNCHANGED <<user, account, link_request, conn, clock, started>>

\* Time passes.
Tick ==
    /\ clock < MaxTime
    /\ clock' = clock + 1
    /\ UNCHANGED <<user, account, link_request, conn, started, call>>

Next ==
    \/ \E p \in Procs : StartCall(p, UserOps \cup AccountOps \cup RequestOps \cup DeviceOps, UserIds)
    \/ \E p \in Procs : PoolGet(p)
    \/ \E p \in Procs : PoolGetFail(p)
    \/ \E p \in Procs : Execute(p)
    \/ \E p \in Procs : Exchange(p)
    \/ \E p \in Procs : Finish(p)
    \/ Tick

Spec == Init /\ [][Next]_vars

\* The user repository alone.
NextUser ==
    \/ \E p \in Procs : StartCall(p, UserOps, UserIds)
    \/ \E p \in Procs : PoolGet(p)
    \/ \E p \in Procs : PoolGetFail(p)
    \/ \E p \in Procs : Execute(p)
    \/ \E p \in Procs : Finish(p)

\* No account is linked yet.
InitUser == Init /\ \A u \in UserIds : ~account[u].exists

SpecUser == InitUser /\ [][NextUser]_vars

\* The user operations under the scheduling the runtime gives: a dispatched
\* closure gets its pool.get() answered (the connection, or the error after
\* connection_timeout), and a closure holding the connection runs to its end.
FairPool ==
    \A p \in Procs :
        /\ WF_vars(PoolGet(p) \/ PoolGetFail(p))
        /\ WF_vars(Execute(p))
SpecPool == InitUser /\ [][NextUser]_vars /\ FairPool

\* create_user and update_device_name.
NextDevice ==
    \/ \E p \in Procs : StartCall(p, DeviceOps, UserIds)
    \/ \E p \in Procs : PoolGet(p)
    \/ \E p \in Procs : PoolGetFail(p)
    \/ \E p \in Procs : Execute(p)
    \/ \E p \in Procs : Finish(p)

SpecDevice == InitUser /\ [][NextDevice]_vars

\* The account repository and the refresh protocol alone: the callers work on
\* u1's account, beside the linked account of u2.
NextAccount ==
    \/ \E p \in Procs : StartCall(p, AccountOps, {"u1"})
    \/ \E p \in Procs : PoolGet(p)
    \/ \E p \in Procs : PoolGetFail(p)
    \/ \E p \in Procs : Execute(p)
    \/ \E p \in Procs : Exchange(p)
    \/ \E p \in Procs : Finish(p)
    \/ Tick

InitAccount ==
    /\ Init
    /\ \A u \in UserIds : user[u].exists
    /\ account["u2"] = AccountRow("u2", "a0", "r0", 1)

SpecAccount == InitAccount /\ [][NextAccount]_vars

\* The link-request repository alone.
NextRequest ==
    \/ \E p \in Procs : StartCall(p, RequestOps, UserIds)
    \/ \E p \in Procs : PoolGet(p)
    \/ \E p \in Procs : PoolGetFail(p)
    \/ \E p \in Procs : Execute(p)
    \/ \E p \in Procs : Finish(p)
    \/ Tick

InitRequest ==
    /\ Init
    /\ \A u \in UserIds : user[u].exists /\ ~account[u].exists

SpecRequest == InitRequest /\ [][NextRequest]_vars

\* ----------------------------------------------------------- claims ----
\* The calls of get_access_token / get_or_create_user in progress or done.
InGetAccessToken(p) == call[p].op = "get_access_token"
InGetOrCreateUser(p) == call[p].op = "get_or_create_user"
Done(p) == call[p].pc = "done"
\* The closure the call awaited last has returned to it.
Returned(p) == call[p].pc \in {"exchange", "panicked", "done"}
\* A result carrying the "unnamed prepared statement does not exist" error.
TransientSignature(r) == r = Err(Diesel("Unknown", TRUE))
UniqueViolation == Err(Diesel("UniqueViolation", FALSE))

\* C1: a get_access_token call that loaded a row whose expires is more than
\* one minute after the time of its check has returned exactly that row's
\* access_token and has made no exchange with the identity provider.
C1_FreshTokenNoExchange ==
    \A p \in Procs :
        (/\ InGetAccessToken(p)
         /\ call[p].loaded.exists
         /\ call[p].loaded.expires > call[p].now + 1)
        => /\ Done(p)
           /\ call[p].res = Ok(TokenString(call[p].loaded.access_token))
           /\ call[p].exchanges = 0
           /\ call[p].ran = {"select_account"}

C1_Witness ==
    \E p \in Procs :
        /\ InGetAccessToken(p) /\ Done(p)
        /\ call[p].loaded.exists
        /\ call[p].loaded.expires > call[p].now + 1
        /\ call[p].res.ok

\* C2 (as claimed): a get_access_token call that loaded a row with expires
\* at or before now + 1 minute makes exactly one exchange; when the exchange
\* and the call succeed, the row persisted by the update carries the
\* access_token, refresh_token and expires of the exchange result exactly,
\* and the call returns the new access_token.
C2_RefreshPersistsExchangeResult ==
    \A p \in Procs :
        (/\ InGetAccessToken(p) /\ Done(p)
         /\ call[p].loaded.exists
         /\ call[p].loaded.expires <= call[p].now + 1)
        => /\ call[p].exchanges = 1
           /\ (call[p].exchanged = "ok" /\ call[p].res.ok) =>
                /\ call[p].acct.access_token = call[p].tok.access_token
                /\ Some(call[p].acct.refresh_token) = call[p].tok.refresh_token
                /\ Some(call[p].acct.expires) = call[p].tok.expires_at
                /\ call[p].res = Ok(TokenString(call[p].tok.access_token))

\* C3 (as claimed): when the exchange result carries no refresh_token, the
\* refresh_token persisted by get_access_token is the one stored before.
C3_RefreshTokenKeptWhenNotRotated ==
    \A p \in Procs :
        (/\ InGetAccessToken(p) /\ Done(p)
         /\ call[p].exchanged = "ok" /\ call[p].res.ok
         /\ ~call[p].tok.refresh_token.some)
        => call[p].acct.refresh_token = call[p].loaded.refresh_token

\* C4 (as claimed): after a get_access_token call whose exchange failed or
\* gave nothing, the user's account row is gone and the result is
\* RefreshTokenFailure.
C4_FailedExchangeRemovesRow ==
    \A p \in Procs :
        (InGetAccessToken(p) /\ Done(p) /\ call[p].exchanged = "failed")
        => /\ call[p].res = Err(RefreshTokenFailure)
           /\ ~account[call[p].uid].exists

\* C4 (amended): after a get_access_token call whose exchange failed or gave
\* nothing, the result is RefreshTokenFailure, and the account row is gone
\* whenever the cleanup delete_account succeeded (the deletion is best
\* effort: when it fails the row may remain).
C4_FailedExchangeRemovesRowIfDeleted ==
    \A p \in Procs :
        (InGetAccessToken(p) /\ Done(p) /\ call[p].exchanged = "failed")
        => /\ call[p].res = Err(RefreshTokenFailure)
           /\ call[p].ran = {"select_account", "delete_account"}
           /\ call[p].ret.ok => ~account[call[p].uid].exists

C4_Witness ==
    \E p \in Procs :
        /\ InGetAccessToken(p) /\ Done(p) /\ call[p].exchanged = "failed"
        /\ call[p].ret = Ok(Affected(1))
        /\ ~account[call[p].uid].exists

\* C5: on the exchange-failure path the caller gets RefreshTokenFailure
\* whatever the cleanup delete_account returned; its error, also the one left
\* after its retry, never takes the place of RefreshTokenFailure.
C5_CleanupErrorSwallowed ==
    \A p \in Procs :
        (InGetAccessToken(p) /\ call[p].exchanged = "failed" /\ Returned(p))
        => /\ Done(p)
           /\ call[p].res = Err(RefreshTokenFailure)
           /\ ~call[p].ret.ok => call[p].res # call[p].ret

C5_Witness ==
    \E p \in Procs :
        /\ InGetAccessToken(p) /\ Done(p) /\ call[p].exchanged = "failed"
        /\ Len(call[p].attempts) = 2
        /\ ~call[p].ret.ok
        /\ account[call[p].uid].exists

\* C6: through the retry wrapper, a closure whose first execution fails with
\* the prepared-statement signature is executed exactly once more, and the
\* wrapper returns what that second execution gave, success or failure.
C6_TransientRetriedOnce ==
    \A p \in Procs :
        (/\ call[p].retry /\ Returned(p)
         /\ Len(call[p].attempts) >= 1
         /\ TransientSignature(call[p].attempts[1]))
        => /\ Len(call[p].attempts) = 2
           /\ call[p].ret = call[p].attempts[2]

C6_Witness ==
    \E p, q \in Procs :
        /\ p # q
        /\ call[p].retry /\ Done(p) /\ Len(call[p].attempts) = 2
        /\ TransientSignature(call[p].attempts[1])
        /\ call[p].ret.ok /\ call[p].res = call[p].ret
        /\ call[q].retry /\ Done(q) /\ Len(call[q].attempts) = 2
        /\ TransientSignature(call[q].attempts[1])
        /\ TransientSignature(call[q].ret)

\* C7: through the retry wrapper, a closure whose first execution succeeds
\* or fails with an error that is not the prepared-statement signature is
\* executed once and its result returned unchanged; no closure is executed
\* more than twice.
C7_NonTransientOnceAndCap ==
    \A p \in Procs :
        /\ Len(call[p].attempts) <= 2
        /\ (/\ call[p].retry /\ Returned(p)
            /\ Len(call[p].attempts) >= 1
            /\ ~TransientSignature(call[p].attempts[1]))
           => /\ Len(call[p].attempts) = 1
              /\ call[p].ret = call[p].attempts[1]

C7_Witness ==
    \E p, q \in Procs :
        /\ p # q
        /\ call[p].retry /\ Done(p) /\ Len(call[p].attempts) = 1
        /\ ~call[p].ret.ok /\ call[p].ret.err.variant = "Diesel"
        /\ call[q].retry /\ Done(q) /\ Len(call[q].attempts) = 1
        /\ call[q].ret.ok

\* C8 (as claimed): the load and the update of get_access_token go through
\* the retry wrapper: one that fails with the prepared-statement signature
\* while the row is there (so that it would succeed when run again) is
\* executed once more before get_access_token returns.
C8_LoadAndUpdateRetried ==
    \A p \in Procs :
        (/\ InGetAccessToken(p) /\ Returned(p)
         /\ account[call[p].uid].exists
         /\ call[p].stmt \in {"select_account", "update_account"}
         /\ Len(call[p].attempts) >= 1
         /\ TransientSignature(call[p].attempts[1]))
        => Len(call[p].attempts) = 2

\* C9 (as claimed): of two get_or_create_user calls for one user_id, run one
\* after the other or interleaved, each gives the User of that id and none
\* ends in a unique violation.
C9_GetOrCreateNeverConflicts ==
    \A p, q \in Procs :
        (/\ p # q
         /\ InGetOrCreateUser(p) /\ InGetOrCreateUser(q)
         /\ call[p].uid = call[q].uid
         /\ Done(p))
        => /\ call[p].res # UniqueViolation
           /\ call[p].res.ok => call[p].res.val = UserRow(call[p].uid)

\* C10: get_or_create_user calls create_user only when get_user returned
\* NotFound; any other error of get_user is the call's result, with no
\* create_user and no insert.
C10_OnlyNotFoundFallsThrough ==
    \A p \in Procs :
        InGetOrCreateUser(p) =>
            /\ "insert_user" \in call[p].ran => call[p].got = Err(NotFound)
            /\ (call[p].got # Null /\ call[p].got # Err(NotFound))
               => /\ Done(p)
                  /\ call[p].res = call[p].got
                  /\ call[p].ran = {"select_user"}

C10_Witness ==
    \E p \in Procs :
        /\ InGetOrCreateUser(p) /\ Done(p)
        /\ ~call[p].got.ok
        /\ call[p].got # Err(NotFound)
        /\ ~user[call[p].uid].exists

\* C11: link_request never holds two rows of one user_id, and every
\* create_request whose upsert succeeds leaves exactly one row for its user,
\* carrying the token and the expires that call drew, together; the rows of
\* the other users stay as they were.
UpsertDone(p) ==
    /\ call[p].pc = "exec" /\ call[p].stmt = "upsert_request"
    /\ call'[p].pc = "done" /\ call'[p].res.ok
C11_OneRequestPerUser ==
    /\ [](\A u \in UserIds : Cardinality(RowsOf(u)) <= 1)
    /\ [][\A p \in Procs : UpsertDone(p) =>
            /\ RowsOf(call[p].uid)' =
                 {LinkRow(call[p].uid, call'[p].token, call'[p].req_expires)}
            /\ call'[p].res.val =
                 LinkRow(call[p].uid, call'[p].token, call'[p].req_expires)
            /\ \A u \in UserIds \ {call[p].uid} : RowsOf(u)' = RowsOf(u)]_vars

C11_Witness ==
    \E p, q \in Procs :
        /\ p # q
        /\ call[p].op = "create_request" /\ call[q].op = "create_request"
        /\ Done(p) /\ Done(q) /\ call[p].res.ok /\ call[q].res.ok
        /\ call[p].uid = call[q].uid
        /\ call[p].token # call[q].token
        /\ call[p].req_expires < call[q].req_expires
        /\ link_request =
             {LinkRow(call[q].uid, call[q].token, call[q].req_expires)}

\* C12: create_request does not go through the retry wrapper: its closure is
\* executed once, it draws one token (none when pool.get() failed before the
\* draw), and the closure's result, the prepared-statement error included, is
\* the call's result.
C12_CreateRequestRunsOnce ==
    \A p \in Procs :
        (call[p].op = "create_request" /\ Returned(p))
        => /\ Len(call[p].attempts) = 1
           /\ call[p].minted = (IF call[p].attempts[1] = Err(PoolError) THEN 0 ELSE 1)
           /\ call[p].res = call[p].attempts[1]

C12_Witness ==
    \E p \in Procs :
        /\ call[p].op = "create_request" /\ Done(p)
        /\ TransientSignature(call[p].res)
        /\ call[p].minted = 1
        /\ Len(call[p].attempts) = 1
        /\ RowsOf(call[p].uid) = {}

\* The row an exchange result makes.
RowOfToken(uid, tok) ==
    AccountRow(uid, tok.access_token,
               IF tok.refresh_token.some THEN tok.refresh_token.v ELSE "",
               tok.expires_at.v)
\* A closure result that is a failure of the backend or of the pool.
IsFault(r) ==
    r \in {Err(PoolError), Err(Diesel("Unknown", TRUE)), Err(Diesel("Unknown", FALSE))}
Store == <<user, account, link_request>>

\* C13: an account row only ever changes by being deleted or by one update
\* that writes access_token, refresh_token and expires of one exchange result
\* together; no step leaves the access_token of one exchange beside the
\* expires or refresh_token of another exchange or of the row before.
C13_TokenPairWrittenTogether ==
    [][\A u \in UserIds :
         account'[u] # account[u] =>
            \/ ~account'[u].exists
            \/ \E p \in Procs :
                 /\ InGetAccessToken(p) /\ call[p].uid = u
                 /\ call[p].pc = "exec" /\ call[p].stmt = "update_account"
                 /\ account[u].exists
                 /\ account'[u] = RowOfToken(u, call[p].tok)]_vars

C13_Witness ==
    \E p, q \in Procs :
        /\ p # q
        /\ InGetAccessToken(p) /\ InGetAccessToken(q)
        /\ Done(p) /\ Done(q) /\ call[p].res.ok /\ call[q].res.ok
        /\ call[p].exchanged = "ok" /\ call[q].exchanged = "ok"
        /\ call[p].tok.access_token # call[q].tok.access_token
        /\ call[p].tok.expires_at # call[q].tok.expires_at
        /\ account[call[q].uid] = RowOfToken(call[q].uid, call[q].tok)

\* C14: a get_access_token call whose load found no account row ends with
\* NotFound after that one load, makes no exchange, and no step of it changes
\* a row of any table.
C14_NoAccountIsNotFound ==
    /\ [](\A p \in Procs :
            (InGetAccessToken(p) /\ ~call[p].loaded.exists) =>
               /\ call[p].ran = {"select_account"}
               /\ call[p].exchanges = 0
               /\ (Returned(p) /\ call[p].attempts[1] = Err(NotFound))
                  => (Done(p) /\ call[p].res = Err(NotFound)))
    /\ [][\A p \in Procs :
            (/\ call'[p] # call[p]
             /\ call'[p].op = "get_access_token"
             /\ ~call'[p].loaded.exists)
            => Store' = Store]_vars

C14_Witness ==
    \E p \in Procs :
        /\ InGetAccessToken(p) /\ Done(p)
        /\ call[p].attempts = <<Err(NotFound)>>
        /\ call[p].res = Err(NotFound)
        /\ ~account[call[p].uid].exists

\* C15: update_device_name for a user without a row returns success (never
\* NotFound; an error only when the backend or the pool failed), and no step
\* of the call creates or changes a row.
C15_UpdateDeviceNameNoRow ==
    /\ [](\A p \in Procs :
            (/\ call[p].op = "update_device_name" /\ Done(p)
             /\ ~user[call[p].uid].exists)
            => /\ call[p].res # Err(NotFound)
               /\ call[p].res = Ok(Unit) \/ IsFault(call[p].res))
    /\ [][\A p \in Procs :
            (/\ call'[p] # call[p]
             /\ call'[p].op = "update_device_name"
             /\ ~user[call'[p].uid].exists)
            => Store' = Store]_vars

C15_Witness ==
    \E p \in Procs :
        /\ call[p].op = "update_device_name" /\ Done(p)
        /\ call[p].res = Ok(Unit)
        /\ call[p].ran = {"update_user"}
        /\ ~user[call[p].uid].exists
        /\ \E u \in UserIds : user[u] = UserRow(u)

\* C16: the refresh is not serialized per user.  An update fails with
\* NotFound only when the row is gone, never because another call wrote it
\* first; a call whose update succeeded persisted its own exchange result;
\* and when two calls that loaded the same row have both refreshed, the row
\* holds the values of one of them (the one whose update ran last).
C16_RefreshNotSerialized ==
    /\ \A p \in Procs :
         (InGetAccessToken(p) /\ Returned(p) /\ call[p].stmt = "update_account")
         => /\ call[p].ret = Err(NotFound) => ~account[call[p].uid].exists
            /\ call[p].ret.ok => call[p].acct = RowOfToken(call[p].uid, call[p].tok)
    /\ \A p, q \in Procs :
         (/\ p # q
          /\ InGetAccessToken(p) /\ InGetAccessToken(q)
          /\ call[p].uid = call[q].uid
          /\ Done(p) /\ Done(q) /\ call[p].res.ok /\ call[q].res.ok
          /\ call[p].exchanged = "ok" /\ call[q].exchanged = "ok"
          /\ call[p].loaded = call[q].loaded)
         => account[call[p].uid] \in {call[p].acct, call[q].acct}

C16_Witness ==
    \E p, q \in Procs :
        /\ p # q
        /\ InGetAccessToken(p) /\ InGetAccessToken(q)
        /\ call[p].uid = call[q].uid
        /\ Done(p) /\ Done(q) /\ call[p].res.ok /\ call[q].res.ok
        /\ call[p].loaded = call[q].loaded
        /\ call[p].loaded.access_token = "a0"
        /\ call[p].exchanges = 1 /\ call[q].exchanges = 1
        /\ call[p].exchanged = "ok" /\ call[q].exchanged = "ok"
        /\ call[p].acct # call[q].acct
        /\ account[call[q].uid] = call[q].acct

\* C17: only a running closure holds the pooled connection: a
\* get_access_token call waiting for its exchange holds none.
C17_NoConnectionAcrossExchange ==
    \A p \in Procs :
        /\ p \in conn => call[p].pc = "exec"
        /\ call[p].pc = "exchange" => p \notin conn

C17_Witness ==
    \E p, q \in Procs :
        /\ p # q
        /\ InGetAccessToken(p) /\ call[p].pc = "exchange"
        /\ q \in conn /\ call[q].pc = "exec"

C19_CleanupSparesRefreshedRow ==
    \A p, q \in Procs :
        (/\ p # q
         /\ InGetAccessToken(p) /\ InGetAccessToken(q)
         /\ call[p].uid = call[q].uid
         /\ Done(q) /\ call[q].exchanged = "ok" /\ call[q].res.ok)
        => ~(/\ call[p].exchanged = "failed" /\ Done(p)
             /\ call[p].ret = Ok(Affected(1))
             /\ ~account[call[q].uid].exists)

\* C20: get_access_token never creates an account row: no step makes an
\* absent row appear, and a call whose update matched no row (the row it
\* loaded has been deleted meanwhile) returns NotFound, the row still absent.
C20_UpdateNeverCreatesRow ==
    /\ [][\A u \in UserIds : ~account[u].exists => ~account'[u].exists]_vars
    /\ [](\A p \in Procs :
            (/\ InGetAccessToken(p) /\ Returned(p)
             /\ call[p].stmt = "update_account"
             /\ call[p].attempts[1] = Err(NotFound))
            => /\ Done(p)
               /\ call[p].res = Err(NotFound)
               /\ ~account[call[p].uid].exists)

C20_Witness ==
    \E p, q \in Procs :
        /\ p # q
        /\ InGetAccessToken(p) /\ Done(p)
        /\ call[p].loaded.exists /\ call[p].exchanged = "ok"
        /\ call[p].res = Err(NotFound)
        /\ call[q].op = "delete_account" /\ Done(q)
        /\ call[q].uid = call[p].uid
        /\ call[q].res = Ok(Affected(1))
        /\ ~account[call[p].uid].exists

====
